---------------------------- MODULE Spec2Model ----------------------------
(***************************************************************************)
(* Invoice-to-check workflow of check-print-api: the relational store      *)
(* (vendors, invoices, checks and their id sequences), the request         *)
(* handlers of app/api/routes (vendors, invoices, checks, auth), the       *)
(* users that main.lifespan seeds and the per-request unit of work of      *)
(* app/core/database.get_db.                                               *)
(*                                                                         *)
(* Spec      : requests execute one at a time; every handler, together     *)
(*             with the commit or rollback of get_db, is one action.       *)
(* ForwardSpec: Spec without update_invoice (the "forward path").          *)
(* ConcSpec  : generate_check split at its database round trips and run    *)
(*             by several sessions under READ COMMITTED isolation (the     *)
(*             default of the PostgreSQL store that config.py names).      *)
(* UserSpec  : the handlers of routes/auth.py over the seeded users.       *)
(* AccessSpec: every role-guarded handler, called under each role.         *)
(* LedgerSpec: the two ways an invoice is added (manual create, import).   *)
(* RowsSpec  : _import_rows applied to bounded row sequences.              *)
(* AdminSpec : UserSpec with every management call made by an active       *)
(*             ADMIN.                                                      *)
(*                                                                         *)
(* Columns that no handler decision reads (store_number, invoice_date,     *)
(* attachment_filename, source_type, imported_by_id, issue_date, the       *)
(* address columns and the timestamps) are left out of the rows.           *)
(***************************************************************************)
EXTENDS Integers, Sequences, FiniteSets, TLC

VARIABLES
    db,     \* committed contents of the relational store
    sess,   \* per database session: position in generate_check and its locals
    resp    \* the response of the request that completed last

vars == <<db, sess, resp>>

---------------------------------------------------------------------------
(* Bounds and input alphabets *)

\* number of concurrently open database sessions in ConcSpec
NumSessions == 2

Sessions == 1..NumSessions

Roles == {"ADMIN", "CLERK", "VIEWER"}

VendorNames == {"Acme", "Bolt"}

InvoiceNumbers == {"INV-1", "INV-2"}

\* notes are kept as a tuple: <<>> is None, <<s>> is the string s
NoNotes == <<>>

\* statuses named by the column comment of Invoice.status, and one value
\* outside of them
Statuses == {"PENDING", "APPROVED", "CHECK_GENERATED", "PRINTED", "VOID", "ON_HOLD"}

\* a field of InvoiceUpdate that the request body does not carry
UNSET == "<unset>"
\* a field of a request body carried with the JSON value null
NULL == "<null>"

\* values of the notes and status fields of an InvoiceUpdate body
UpdateNotesInputs == {UNSET, "rush"}
UpdateStatusInputs == Statuses \cup {UNSET, NULL}

\* values of the memo field of a GenerateCheckRequest body
MemoInputs == {NULL, "", "Rent"}

\* extensions of the uploaded file's name
Extensions == {".csv", ".xlsx", ".txt"}

\* data rows of an uploaded file, as csv.DictReader or the worksheet loop
\* hands them over: a cell is a string, or NULL for a cell the file leaves
\* out (None)
Row(invoice_number, store_number, vendor_name, amount, invoice_date, notes) ==
    [invoice_number |-> invoice_number, store_number |-> store_number,
     vendor_name |-> vendor_name, amount |-> amount,
     invoice_date |-> invoice_date, notes |-> notes]

\* the row sequences that are uploaded
RowSequences ==
    { <<>>,
      \* three rows, the second with a non-numeric amount
      << Row("INV-1", "S1", "Acme", "12.50", "", ""),
         Row("INV-2", "S1", "Acme", "abc", "2024-01-15", ""),
         Row("INV-2", "S2", "acme", "7.005", "2024-01-15", "rush") >>,
      \* one invoice_number in two rows, under two vendors
      << Row(" INV-1 ", "S1", "Bolt", "12.50", "2024-01-15", ""),
         Row("INV-1", "S1", "Acme", "7.005", NULL, NULL) >>,
      \* rows that fail validation, the first two under INV-1
      << Row("INV-1", " ", "Zeta", "12.50", "", ""),
         Row("INV-1", "S1", "Zeta", "12.50", "someday", ""),
         Row("INV-2", NULL, "Zeta", "12.50", "", ""),
         Row(NULL, "S1", "Zeta", NULL, "", "") >> }

\* the uploads of POST /api/invoices/import that are tried
Uploads ==
    { [extension |-> e, has_required_columns |-> FALSE, rows |-> <<>>] : e \in Extensions }
    \cup
    { [extension |-> e, has_required_columns |-> TRUE, rows |-> rows] :
        e \in {".csv", ".xlsx"}, rows \in RowSequences }

\* the rows that _import_rows is applied to, one for each way out of its
\* loop: two rows that are inserted (the same invoice_number once trimmed,
\* vendor names that differ in case), a row for each failed validation and
\* a row of empty cells, whose invoice_number reads "None"
RowInputs ==
    { Row("INV-1", "S1", "Acme", "12.50", "", ""),
      Row(" INV-1 ", "S1", "acme", "7.005", "2024-01-15", "rush"),
      Row("INV-2", "S1", "Acme", "abc", "", ""),
      Row("INV-2", NULL, "Acme", "12.50", "", ""),
      Row("INV-2", "S1", "Acme", "12.50", "someday", ""),
      Row(NULL, "S1", "Acme", "12.50", NULL, NULL) }

\* the longest row sequence that is tried
MaxRows == 2

\* the row sequences of at most MaxRows rows
RowLists == UNION { [1..k -> RowInputs] : k \in 0..MaxRows }

\* ImportSummary.source of the two callers
Sources == {"csv", "excel"}

\* Invoice.check_id of an invoice without a check (SQL NULL; ids start at 1)
NoCheck == 0

\* primary keys used as request parameters (a key is unknown to the store
\* until the row is created)
InvoiceIds == 1..Cardinality(InvoiceNumbers)

\* the form submissions of POST /api/invoices/create that are tried
CreateForms ==
    { [invoice_number |-> "INV-1", vendor_id |-> 1, amount |-> "12.50",
       invoice_date |-> "2024-01-15", notes |-> ""],
      [invoice_number |-> "INV-2", vendor_id |-> 2, amount |-> "7.005",
       invoice_date |-> "2024-01-15", notes |-> "rush"],
      [invoice_number |-> "INV-2", vendor_id |-> 1, amount |-> "abc",
       invoice_date |-> "2024-01-15", notes |-> ""],
      [invoice_number |-> "INV-2", vendor_id |-> 1, amount |-> "12.50",
       invoice_date |-> "someday", notes |-> ""] }

\* the users that main.lifespan seeds, by id, all of them active
SeedUsers ==
    <<[email |-> "admin@checkprint.local", hashed_password |-> <<"hash", "admin123">>,
       role |-> "ADMIN", is_active |-> TRUE],
      [email |-> "clerk@checkprint.local", hashed_password |-> <<"hash", "clerk123">>,
       role |-> "CLERK", is_active |-> TRUE],
      [email |-> "viewer@checkprint.local", hashed_password |-> <<"hash", "viewer123">>,
       role |-> "VIEWER", is_active |-> TRUE]>>

\* the e-mail addresses of signup, login and create_user bodies
Emails == {"admin@checkprint.local", "new@checkprint.local"}

\* passwords of those bodies: of the seeded admin, of a signup, of a
\* create_user, and one that is too short
Passwords == {"admin123", "secret1", "created1", "short"}

\* full_name of a signup body: a name, and one that is blank
FullNames == {"New User", " "}

\* the role parameter of update_user_role and create_user: roles, and a
\* value that is none
RoleInputs == {"ADMIN", "VIEWER", "ROOT"}

\* user ids used as request parameters: the seeded users and one per
\* address that can still register
UserIds == 1..(Len(SeedUsers) + Cardinality(Emails) - 1)

\* the most vendor ids that the sequence of Vendor.id hands out
MaxVendorSeq == 2

\* vendor ids used as request parameters
VendorIds == 1..MaxVendorSeq

\* values of the name field of a VendorUpdate body
UpdateNameInputs == VendorNames \cup {UNSET, NULL}

\* the form submissions tried where only imports and manual creates run:
\* INV-1 under either vendor
LedgerForms ==
    { [invoice_number |-> "INV-1", vendor_id |-> 1, amount |-> "12.50",
       invoice_date |-> "2024-01-15", notes |-> ""],
      [invoice_number |-> "INV-1", vendor_id |-> 2, amount |-> "7.005",
       invoice_date |-> "2024-01-15", notes |-> ""],
      [invoice_number |-> "INV-2", vendor_id |-> 2, amount |-> "7.005",
       invoice_date |-> "2024-01-15", notes |-> "rush"],
      [invoice_number |-> "INV-2", vendor_id |-> 1, amount |-> "abc",
       invoice_date |-> "2024-01-15", notes |-> ""] }

---------------------------------------------------------------------------
(* Pure helpers *)

Max(S) == IF S = {} THEN 0 ELSE CHOOSE m \in S : \A x \in S : x <= m

\* Decimal(amount): the value in thousandths, or -1 for InvalidOperation
Decimal(s) ==
    CASE s = "12.50" -> 12500
      [] s = "7.005" -> 7005
      [] OTHER -> -1

\* dateutil parse(invoice_date): TRUE when the text parses as a date
ParsesAsDate(s) == s = "2024-01-15"

\* Numeric(12, 2): the stored value in hundredths, ties rounded away from zero
Numeric2(mills) == (mills + 5) \div 10

\* notes.strip() or None
NotesOf(s) == IF s = "" THEN NoNotes ELSE <<s>>

\* str(cell): a cell that is None reads as the text "None"
Str(cell) == IF cell = NULL THEN "None" ELSE cell

\* str(cell or ""): a cell that is None reads as the empty text
StrOrEmpty(cell) == IF cell = NULL THEN "" ELSE cell

\* s.strip()
Strip(s) ==
    CASE s = " " -> ""
      [] s = " INV-1 " -> "INV-1"
      [] OTHER -> s

RECURSIVE Digits(_)
\* decimal digits of n >= 0, most significant first
Digits(n) == IF n < 10 THEN <<n>> ELSE Append(Digits(n \div 10), n % 10)

RECURSIVE ZeroPad(_, _)
ZeroPad(ds, width) == IF Len(ds) >= width THEN ds ELSE ZeroPad(<<0>> \o ds, width)

\* f"{n:06d}"
Format06d(n) == ZeroPad(Digits(n), 6)

\* the number minted from the maximum itself
CheckNumber_NoIncrement(max_id) == [prefix |-> "CHK-", digits |-> Format06d(max_id)]

\* f"CHK-{max_id + 1:06d}"
CheckNumber(max_id) == [prefix |-> "CHK-", digits |-> Format06d(max_id + 1)]

\* (await db.execute(select(func.max(Check.id)))).scalar() or 0
MaxCheckId(checks) == Max(DOMAIN checks)

\* the default taken only for a missing memo (memo is None)
MemoOf_OnlyWhenNone(memo, invoice) ==
    IF memo = NULL THEN <<"Payment for invoice ", invoice.invoice_number>>
    ELSE <<memo>>

\* body.memo or f"Payment for invoice {invoice.invoice_number}"
MemoOf(memo, invoice) ==
    IF memo = NULL \/ memo = "" THEN <<"Payment for invoice ", invoice.invoice_number>>
    ELSE <<memo>>

\* Check(check_number=..., vendor_id=invoice.vendor_id, amount=invoice.amount, ...)
NewCheck(invoice, check_number, memo) ==
    [check_number |-> check_number,
     vendor_id    |-> invoice.vendor_id,
     amount       |-> invoice.amount,
     status       |-> "GENERATED",
     memo         |-> MemoOf(memo, invoice)]

\* Invoice(invoice_number=..., vendor_id=vendor.id, amount=amt, status="PENDING", ...)
NewInvoice(invoice_number, vendor_id, amt, notes) ==
    [invoice_number |-> invoice_number,
     vendor_id      |-> vendor_id,
     amount         |-> Numeric2(amt),
     status         |-> "PENDING",
     check_id       |-> NoCheck,
     notes          |-> NotesOf(notes)]

\* role dependencies of app.core.security
allow_admin(role) == role = "ADMIN"
allow_all_roles(role) == role \in {"ADMIN", "CLERK", "VIEWER"}

\* password hashing of app.core.security
hash_password(password) == <<"hash", password>>
verify_password(password, hashed_password) == hashed_password = hash_password(password)

\* create_access_token({"sub": str(user.id), "role": user.role})
create_access_token(sub, role) == [sub |-> sub, role |-> role]

\* responses: HTTP status code and the detail of an HTTPException
Response(op, id, code, detail) == [op |-> op, id |-> id, code |-> code, detail |-> detail]
Ok(op, id, code) == Response(op, id, code, <<>>)
Forbidden(op, id) == Response(op, id, 403, <<"Insufficient permissions">>)
ServerError(op, id, exc) == Response(op, id, 500, <<exc>>)

\* a session that runs no request
IdleSession == [pc |-> "idle"]

---------------------------------------------------------------------------
(* Initial state: empty tables, but for the users that main.lifespan seeds *)

Init ==
    /\ db = [vendors |-> <<>>, vendor_seq |-> 0,
             invoices |-> <<>>, invoice_seq |-> 0,
             checks |-> <<>>, check_seq |-> 0,
             users |-> SeedUsers, user_seq |-> Len(SeedUsers)]
    /\ sess = [p \in Sessions |-> IdleSession]
    /\ resp = Ok("startup", 0, 200)

---------------------------------------------------------------------------
(* Handlers, each with the commit (or rollback) of get_db *)

\* POST /api/vendors
create_vendor(role, name) ==
    /\ UNCHANGED sess
    /\ IF ~allow_admin(role)
       THEN resp' = Forbidden("create_vendor", 0) /\ UNCHANGED db
       ELSE IF \E v \in DOMAIN db.vendors : db.vendors[v].name = name
       THEN /\ resp' = Response("create_vendor", 0, 400, <<"Vendor with this name already exists">>)
            /\ UNCHANGED db
       ELSE LET id == db.vendor_seq + 1 IN
            /\ db' = [db EXCEPT !.vendors = @ @@ (id :> [name |-> name]),
                                !.vendor_seq = id]
            /\ resp' = Ok("create_vendor", id, 201)

\* PUT /api/vendors/{vendor_id}; name is the field of VendorUpdate, UNSET
\* when the body does not carry it
update_vendor(role, vendor_id, name) ==
    /\ UNCHANGED sess
    /\ IF ~allow_admin(role)
       THEN resp' = Forbidden("update_vendor", vendor_id) /\ UNCHANGED db
       ELSE IF vendor_id \notin DOMAIN db.vendors
       THEN /\ resp' = Response("update_vendor", vendor_id, 404, <<"Vendor not found">>)
            /\ UNCHANGED db
       ELSE IF name = UNSET
       THEN resp' = Ok("update_vendor", vendor_id, 200) /\ UNCHANGED db
       ELSE IF \/ name = NULL
               \/ \E v \in DOMAIN db.vendors \ {vendor_id} : db.vendors[v].name = name
       THEN \* name is nullable=False and unique=True: the flush raises
            resp' = ServerError("update_vendor", vendor_id, "IntegrityError") /\ UNCHANGED db
       ELSE /\ db' = [db EXCEPT !.vendors[vendor_id].name = name]
            /\ resp' = Ok("update_vendor", vendor_id, 200)

\* the rows whose vendor_id column refers to the vendor
Referring(d, vendor_id) ==
    [invoices |-> {i \in DOMAIN d.invoices : d.invoices[i].vendor_id = vendor_id},
     checks   |-> {c \in DOMAIN d.checks : d.checks[c].vendor_id = vendor_id}]

\* the vendors table without the row of vendor_id
Without(vendors, vendor_id) ==
    [v \in DOMAIN vendors \ {vendor_id} |-> vendors[v]]

\* delete_vendor against columns that carry no constraint
delete_vendor_NoConstraint(role, vendor_id) ==
    /\ UNCHANGED sess
    /\ IF ~allow_admin(role)
       THEN resp' = Forbidden("delete_vendor", vendor_id) /\ UNCHANGED db
       ELSE IF vendor_id \notin DOMAIN db.vendors
       THEN /\ resp' = Response("delete_vendor", vendor_id, 404, <<"Vendor not found">>)
            /\ UNCHANGED db
       ELSE /\ db' = [db EXCEPT !.vendors = Without(@, vendor_id)]
            /\ resp' = Ok("delete_vendor", vendor_id, 204)

\* DELETE /api/vendors/{vendor_id}. db.delete(vendor) is flushed by the
\* commit of get_db: the flush first sets vendor_id of the rows of
\* Vendor.invoices to NULL, which Invoice.vendor_id (nullable=False)
\* rejects, and the DELETE is rejected by the foreign key of a check that
\* refers to the vendor; get_db rolls back. The commit runs after the
\* handler has returned, so the caller is answered 500 or, where the
\* framework sends the response before it leaves get_db, the 204 of the
\* handler.
delete_vendor(role, vendor_id) ==
    /\ UNCHANGED sess
    /\ IF ~allow_admin(role)
       THEN resp' = Forbidden("delete_vendor", vendor_id) /\ UNCHANGED db
       ELSE IF vendor_id \notin DOMAIN db.vendors
       THEN /\ resp' = Response("delete_vendor", vendor_id, 404, <<"Vendor not found">>)
            /\ UNCHANGED db
       ELSE IF Referring(db, vendor_id).invoices # {} \/ Referring(db, vendor_id).checks # {}
       THEN /\ resp' \in {ServerError("delete_vendor", vendor_id, "IntegrityError"),
                          Ok("delete_vendor", vendor_id, 204)}
            /\ UNCHANGED db
       ELSE /\ db' = [db EXCEPT !.vendors = Without(@, vendor_id)]
            /\ resp' = Ok("delete_vendor", vendor_id, 204)

\* create_invoice_manual without its look-up of the invoice_number
create_invoice_manual_NoDuplicateTest(role, invoice_number, vendor_id, amount, invoice_date, notes) ==
    /\ UNCHANGED sess
    /\ IF ~allow_all_roles(role)
       THEN resp' = Forbidden("create", 0) /\ UNCHANGED db
       ELSE IF Decimal(amount) < 0
       THEN resp' = Response("create", 0, 400, <<"Invalid amount: ", amount>>) /\ UNCHANGED db
       ELSE IF ~ParsesAsDate(invoice_date)
       THEN resp' = Response("create", 0, 400, <<"Invalid date: ", invoice_date>>) /\ UNCHANGED db
       ELSE IF vendor_id \notin DOMAIN db.vendors
       THEN resp' = Response("create", 0, 400, <<"Vendor not found">>) /\ UNCHANGED db
       ELSE LET id == db.invoice_seq + 1 IN
            /\ db' = [db EXCEPT
                        !.invoices = @ @@ (id :> NewInvoice(invoice_number, vendor_id,
                                                            Decimal(amount), notes)),
                        !.invoice_seq = id]
            /\ resp' = Ok("create", id, 200)

\* POST /api/invoices/create
create_invoice_manual(role, invoice_number, vendor_id, amount, invoice_date, notes) ==
    /\ UNCHANGED sess
    /\ IF ~allow_all_roles(role)
       THEN resp' = Forbidden("create", 0) /\ UNCHANGED db
       ELSE IF Decimal(amount) < 0
       THEN resp' = Response("create", 0, 400, <<"Invalid amount: ", amount>>) /\ UNCHANGED db
       ELSE IF ~ParsesAsDate(invoice_date)
       THEN resp' = Response("create", 0, 400, <<"Invalid date: ", invoice_date>>) /\ UNCHANGED db
       ELSE IF \E i \in DOMAIN db.invoices : db.invoices[i].invoice_number = invoice_number
       THEN /\ resp' = Response("create", 0, 400, <<"Invoice ", invoice_number, " already exists">>)
            /\ UNCHANGED db
       ELSE IF vendor_id \notin DOMAIN db.vendors
       THEN resp' = Response("create", 0, 400, <<"Vendor not found">>) /\ UNCHANGED db
       ELSE LET id == db.invoice_seq + 1 IN
            /\ db' = [db EXCEPT
                        !.invoices = @ @@ (id :> NewInvoice(invoice_number, vendor_id,
                                                            Decimal(amount), notes)),
                        !.invoice_seq = id]
            /\ resp' = Ok("create", id, 200)

\* approve_invoice without its test of the current status
approve_invoice_AnyStatus(role, invoice_id) ==
    /\ UNCHANGED sess
    /\ IF ~allow_admin(role)
       THEN resp' = Forbidden("approve", invoice_id) /\ UNCHANGED db
       ELSE IF invoice_id \notin DOMAIN db.invoices
       THEN resp' = Response("approve", invoice_id, 404, <<"Invoice not found">>) /\ UNCHANGED db
       ELSE /\ db' = [db EXCEPT !.invoices[invoice_id].status = "APPROVED"]
            /\ resp' = Ok("approve", invoice_id, 200)

\* approve_invoice under the dependency of update_invoice
approve_invoice_AllRoles(role, invoice_id) ==
    /\ UNCHANGED sess
    /\ IF ~allow_all_roles(role)
       THEN resp' = Forbidden("approve", invoice_id) /\ UNCHANGED db
       ELSE IF invoice_id \notin DOMAIN db.invoices
       THEN resp' = Response("approve", invoice_id, 404, <<"Invoice not found">>) /\ UNCHANGED db
       ELSE IF db.invoices[invoice_id].status # "PENDING"
       THEN /\ resp' = Response("approve", invoice_id, 400,
                                <<"Cannot approve invoice with status ",
                                  db.invoices[invoice_id].status>>)
            /\ UNCHANGED db
       ELSE /\ db' = [db EXCEPT !.invoices[invoice_id].status = "APPROVED"]
            /\ resp' = Ok("approve", invoice_id, 200)

\* POST /api/invoices/{invoice_id}/approve
approve_invoice(role, invoice_id) ==
    /\ UNCHANGED sess
    /\ IF ~allow_admin(role)
       THEN resp' = Forbidden("approve", invoice_id) /\ UNCHANGED db
       ELSE IF invoice_id \notin DOMAIN db.invoices
       THEN resp' = Response("approve", invoice_id, 404, <<"Invoice not found">>) /\ UNCHANGED db
       ELSE IF db.invoices[invoice_id].status # "PENDING"
       THEN /\ resp' = Response("approve", invoice_id, 400,
                                <<"Cannot approve invoice with status ",
                                  db.invoices[invoice_id].status>>)
            /\ UNCHANGED db
       ELSE /\ db' = [db EXCEPT !.invoices[invoice_id].status = "APPROVED"]
            /\ resp' = Ok("approve", invoice_id, 200)

\* update_invoice with a patch that also resets check_id when it sets a status
update_invoice_ClearsCheckId(role, invoice_id, notes, status) ==
    /\ UNCHANGED sess
    /\ IF ~allow_all_roles(role)
       THEN resp' = Forbidden("update", invoice_id) /\ UNCHANGED db
       ELSE IF invoice_id \notin DOMAIN db.invoices
       THEN resp' = Response("update", invoice_id, 404, <<"Invoice not found">>) /\ UNCHANGED db
       ELSE IF status = NULL
       THEN resp' = ServerError("update", invoice_id, "IntegrityError") /\ UNCHANGED db
       ELSE /\ db' = [db EXCEPT
                        !.invoices[invoice_id].notes =
                            IF notes = UNSET THEN @ ELSE IF notes = NULL THEN NoNotes ELSE <<notes>>,
                        !.invoices[invoice_id].status =
                            IF status = UNSET THEN @ ELSE status,
                        !.invoices[invoice_id].check_id =
                            IF status = UNSET THEN @ ELSE NoCheck]
            /\ resp' = Ok("update", invoice_id, 200)

\* PUT /api/invoices/{invoice_id}; notes and status are the fields of
\* InvoiceUpdate, UNSET when the body does not carry them
update_invoice(role, invoice_id, notes, status) ==
    /\ UNCHANGED sess
    /\ IF ~allow_all_roles(role)
       THEN resp' = Forbidden("update", invoice_id) /\ UNCHANGED db
       ELSE IF invoice_id \notin DOMAIN db.invoices
       THEN resp' = Response("update", invoice_id, 404, <<"Invoice not found">>) /\ UNCHANGED db
       ELSE IF status = NULL
       THEN \* status is nullable=False: the flush raises, get_db rolls back
            resp' = ServerError("update", invoice_id, "IntegrityError") /\ UNCHANGED db
       ELSE /\ db' = [db EXCEPT
                        !.invoices[invoice_id].notes =
                            IF notes = UNSET THEN @ ELSE IF notes = NULL THEN NoNotes ELSE <<notes>>,
                        !.invoices[invoice_id].status =
                            IF status = UNSET THEN @ ELSE status]
            /\ resp' = Ok("update", invoice_id, 200)

\* the vendor of that exact name in store d, inserted first when there is
\* none: the store after it and the vendor's id
_find_or_create_vendor(name, d) ==
    IF \E v \in DOMAIN d.vendors : d.vendors[v].name = name
    THEN [db |-> d, id |-> CHOOSE v \in DOMAIN d.vendors : d.vendors[v].name = name]
    ELSE [db |-> [d EXCEPT !.vendors = @ @@ ((d.vendor_seq + 1) :> [name |-> name]),
                           !.vendor_seq = @ + 1],
          id |-> d.vendor_seq + 1]

\* the loop of _import_rows without skipped += 1
import_row_DuplicateUncounted(acc, row, i) ==
    LET inv_num     == Strip(Str(row.invoice_number))
        store_num   == Strip(StrOrEmpty(row.store_number))
        vendor_name == Strip(Str(row.vendor_name))
        amount_str  == Strip(Str(row.amount))
        date_str    == Strip(StrOrEmpty(row.invoice_date))
        counted     == [acc EXCEPT !.total = @ + 1]
    IN  IF inv_num = "" \/ vendor_name = "" \/ amount_str = "" \/ store_num = ""
        THEN [counted EXCEPT !.errors =
                 Append(@, <<"Row ", i, ": missing required field(s)">>)]
        ELSE IF Decimal(amount_str) < 0
        THEN [counted EXCEPT !.errors =
                 Append(@, <<"Row ", i, ": invalid amount '", amount_str, "'">>)]
        ELSE IF date_str # "" /\ ~ParsesAsDate(date_str)
        THEN [counted EXCEPT !.errors =
                 Append(@, <<"Row ", i, ": invalid date '", date_str, "'">>)]
        ELSE IF \E n \in DOMAIN acc.db.invoices :
                    acc.db.invoices[n].invoice_number = inv_num
        THEN counted
        ELSE LET found == _find_or_create_vendor(vendor_name, acc.db)
                 id == found.db.invoice_seq + 1
             IN  [counted EXCEPT
                    !.db = [found.db EXCEPT
                              !.invoices = @ @@
                                  (id :> NewInvoice(inv_num, found.id, Decimal(amount_str),
                                                    Strip(StrOrEmpty(row.notes)))),
                              !.invoice_seq = id],
                    !.imported = @ + 1]

\* one pass of the loop of _import_rows over row, the i-th line of the file;
\* acc holds the session's view of the store and the four counters
import_row(acc, row, i) ==
    LET inv_num     == Strip(Str(row.invoice_number))
        store_num   == Strip(StrOrEmpty(row.store_number))
        vendor_name == Strip(Str(row.vendor_name))
        amount_str  == Strip(Str(row.amount))
        date_str    == Strip(StrOrEmpty(row.invoice_date))
        counted     == [acc EXCEPT !.total = @ + 1]
    IN  IF inv_num = "" \/ vendor_name = "" \/ amount_str = "" \/ store_num = ""
        THEN [counted EXCEPT !.errors =
                 Append(@, <<"Row ", i, ": missing required field(s)">>)]
        ELSE IF Decimal(amount_str) < 0
        THEN [counted EXCEPT !.errors =
                 Append(@, <<"Row ", i, ": invalid amount '", amount_str, "'">>)]
        ELSE IF date_str # "" /\ ~ParsesAsDate(date_str)
        THEN [counted EXCEPT !.errors =
                 Append(@, <<"Row ", i, ": invalid date '", date_str, "'">>)]
        ELSE IF \E n \in DOMAIN acc.db.invoices :
                    acc.db.invoices[n].invoice_number = inv_num
        THEN [counted EXCEPT !.skipped = @ + 1]
        ELSE LET found == _find_or_create_vendor(vendor_name, acc.db)
                 id == found.db.invoice_seq + 1
             IN  [counted EXCEPT
                    !.db = [found.db EXCEPT
                              !.invoices = @ @@
                                  (id :> NewInvoice(inv_num, found.id, Decimal(amount_str),
                                                    Strip(StrOrEmpty(row.notes)))),
                              !.invoice_seq = id],
                    !.imported = @ + 1]

RECURSIVE import_loop(_, _, _)
\* for i, row in enumerate(rows, start=2), from line i on
import_loop(acc, rows, i) ==
    IF rows = <<>> THEN acc
    ELSE import_loop(import_row(acc, Head(rows), i), Tail(rows), i + 1)

\* _import_rows(rows, source, db, user_id): the store after the final flush
\* and the ImportSummary; source and user_id fill columns that the rows of
\* this model leave out
_import_rows(rows, source, d, user_id) ==
    LET acc == import_loop([db |-> d, total |-> 0, imported |-> 0, skipped |-> 0,
                            errors |-> <<>>], rows, 2)
    IN  [db |-> acc.db,
         summary |-> [total_rows |-> acc.total, imported |-> acc.imported,
                      skipped_duplicates |-> acc.skipped, errors |-> acc.errors]]

\* a call of _import_rows in a unit of work of its own: the store after the
\* commit, and the ImportSummary as the answer
import_rows(rows, source, user_id) ==
    LET done == _import_rows(rows, source, db, user_id)
    IN  /\ db' = done.db
        /\ resp' = Response("_import_rows", user_id, 200, done.summary)
        /\ UNCHANGED sess

\* import_file with current_user.id handed to _import_rows as its user_id
\* (the handler that the signature of _import_rows asks for)
import_file_PassingUserId(role, extension, has_required_columns, rows) ==
    /\ UNCHANGED sess
    /\ IF ~allow_all_roles(role)
       THEN resp' = Forbidden("import", 0) /\ UNCHANGED db
       ELSE IF extension \notin {".csv", ".xlsx", ".xls"}
       THEN resp' = Response("import", 0, 400, <<"File must be .csv or .xlsx">>) /\ UNCHANGED db
       ELSE IF ~has_required_columns
       THEN resp' = Response("import", 0, 400,
                             <<IF extension = ".csv" THEN "File" ELSE "Excel",
                               " must contain columns: ">>) /\ UNCHANGED db
       ELSE LET done == _import_rows(rows, IF extension = ".csv" THEN "csv" ELSE "excel", db, 1)
            IN  /\ db' = done.db
                /\ resp' = Response("import", 0, 200, done.summary)

\* POST /api/invoices/import: both branches call
\* _import_rows(rows, source, db) without its user_id parameter, and the
\* call raises TypeError before the first row is read
import_file(role, extension, has_required_columns, rows) ==
    /\ UNCHANGED <<sess, db>>
    /\ IF ~allow_all_roles(role)
       THEN resp' = Forbidden("import", 0)
       ELSE IF extension \notin {".csv", ".xlsx", ".xls"}
       THEN resp' = Response("import", 0, 400, <<"File must be .csv or .xlsx">>)
       ELSE IF ~has_required_columns
       THEN resp' = Response("import", 0, 400,
                             <<IF extension = ".csv" THEN "File" ELSE "Excel",
                               " must contain columns: ">>)
       ELSE resp' = ServerError("import", 0, "TypeError")

\* generate_check without its test of invoice.check_id
generate_check_NoCheckIdTest(role, invoice_id, memo) ==
    /\ UNCHANGED sess
    /\ IF ~allow_admin(role)
       THEN resp' = Forbidden("generate_check", invoice_id) /\ UNCHANGED db
       ELSE IF invoice_id \notin DOMAIN db.invoices
       THEN /\ resp' = Response("generate_check", invoice_id, 404, <<"Invoice not found">>)
            /\ UNCHANGED db
       ELSE IF db.invoices[invoice_id].status # "APPROVED"
       THEN /\ resp' = Response("generate_check", invoice_id, 400,
                                <<"Invoice must be APPROVED, current: ",
                                  db.invoices[invoice_id].status>>)
            /\ UNCHANGED db
       ELSE LET invoice == db.invoices[invoice_id]
                check_number == CheckNumber(MaxCheckId(db.checks))
                id == db.check_seq + 1
            IN  /\ db' = [db EXCEPT
                            !.checks = @ @@ (id :> NewCheck(invoice, check_number, memo)),
                            !.check_seq = id,
                            !.invoices[invoice_id].check_id = id,
                            !.invoices[invoice_id].status = "CHECK_GENERATED"]
                /\ resp' = Ok("generate_check", invoice_id, 201)

\* generate_check that assigns check_id and leaves the status as it was
generate_check_StatusKept(role, invoice_id, memo) ==
    /\ UNCHANGED sess
    /\ IF ~allow_admin(role)
       THEN resp' = Forbidden("generate_check", invoice_id) /\ UNCHANGED db
       ELSE IF invoice_id \notin DOMAIN db.invoices
       THEN /\ resp' = Response("generate_check", invoice_id, 404, <<"Invoice not found">>)
            /\ UNCHANGED db
       ELSE IF db.invoices[invoice_id].status # "APPROVED"
       THEN /\ resp' = Response("generate_check", invoice_id, 400,
                                <<"Invoice must be APPROVED, current: ",
                                  db.invoices[invoice_id].status>>)
            /\ UNCHANGED db
       ELSE IF db.invoices[invoice_id].check_id # NoCheck
       THEN /\ resp' = Response("generate_check", invoice_id, 400,
                                <<"Invoice already has a check assigned">>)
            /\ UNCHANGED db
       ELSE LET invoice == db.invoices[invoice_id]
                check_number == CheckNumber(MaxCheckId(db.checks))
                id == db.check_seq + 1
            IN  /\ db' = [db EXCEPT
                            !.checks = @ @@ (id :> NewCheck(invoice, check_number, memo)),
                            !.check_seq = id,
                            !.invoices[invoice_id].check_id = id]
                /\ resp' = Ok("generate_check", invoice_id, 201)

\* POST /api/checks, executed without interleaving
generate_check(role, invoice_id, memo) ==
    /\ UNCHANGED sess
    /\ IF ~allow_admin(role)
       THEN resp' = Forbidden("generate_check", invoice_id) /\ UNCHANGED db
       ELSE IF invoice_id \notin DOMAIN db.invoices
       THEN /\ resp' = Response("generate_check", invoice_id, 404, <<"Invoice not found">>)
            /\ UNCHANGED db
       ELSE IF db.invoices[invoice_id].status # "APPROVED"
       THEN /\ resp' = Response("generate_check", invoice_id, 400,
                                <<"Invoice must be APPROVED, current: ",
                                  db.invoices[invoice_id].status>>)
            /\ UNCHANGED db
       ELSE IF db.invoices[invoice_id].check_id # NoCheck
       THEN /\ resp' = Response("generate_check", invoice_id, 400,
                                <<"Invoice already has a check assigned">>)
            /\ UNCHANGED db
       ELSE LET invoice == db.invoices[invoice_id]
                check_number == CheckNumber(MaxCheckId(db.checks))
                id == db.check_seq + 1
            IN  IF \E c \in DOMAIN db.checks : db.checks[c].check_number = check_number
                THEN \* unique=True on check_number: the flush raises
                     /\ db' = [db EXCEPT !.check_seq = id]
                     /\ resp' = ServerError("generate_check", invoice_id, "IntegrityError")
                ELSE /\ db' = [db EXCEPT
                                 !.checks = @ @@ (id :> NewCheck(invoice, check_number, memo)),
                                 !.check_seq = id,
                                 !.invoices[invoice_id].check_id = id,
                                 !.invoices[invoice_id].status = "CHECK_GENERATED"]
                     /\ resp' = Ok("generate_check", invoice_id, 201)

---------------------------------------------------------------------------
(* User handlers. current_user is the id of the user that the bearer token *)
(* names; the role dependency sees the role of that user's row.            *)

\* the user registered under email, 0 when there is none
UserByEmail(email) ==
    IF \E u \in DOMAIN db.users : db.users[u].email = email
    THEN CHOOSE u \in DOMAIN db.users : db.users[u].email = email
    ELSE 0

\* User(email=..., hashed_password=hash_password(password), role=..., is_active=...)
NewUser(email, password, role, is_active) ==
    [email |-> email, hashed_password |-> hash_password(password),
     role |-> role, is_active |-> is_active]

\* signup that registers the account as active
signup_CreatesActive(email, password, full_name) ==
    /\ UNCHANGED sess
    /\ IF Len(password) < 6
       THEN /\ resp' = Response("signup", 0, 400, <<"Password must be at least 6 characters">>)
            /\ UNCHANGED db
       ELSE IF Strip(full_name) = ""
       THEN resp' = Response("signup", 0, 400, <<"Full name is required">>) /\ UNCHANGED db
       ELSE IF UserByEmail(email) # 0
       THEN resp' = Response("signup", 0, 400, <<"Email already registered">>) /\ UNCHANGED db
       ELSE LET id == db.user_seq + 1 IN
            /\ db' = [db EXCEPT !.users = @ @@ (id :> NewUser(email, password, "VIEWER", TRUE)),
                                !.user_seq = id]
            /\ resp' = Ok("signup", id, 201)

\* POST /api/auth/signup
signup(email, password, full_name) ==
    /\ UNCHANGED sess
    /\ IF Len(password) < 6
       THEN /\ resp' = Response("signup", 0, 400, <<"Password must be at least 6 characters">>)
            /\ UNCHANGED db
       ELSE IF Strip(full_name) = ""
       THEN resp' = Response("signup", 0, 400, <<"Full name is required">>) /\ UNCHANGED db
       ELSE IF UserByEmail(email) # 0
       THEN resp' = Response("signup", 0, 400, <<"Email already registered">>) /\ UNCHANGED db
       ELSE LET id == db.user_seq + 1 IN
            /\ db' = [db EXCEPT !.users = @ @@ (id :> NewUser(email, password, "VIEWER", FALSE)),
                                !.user_seq = id]
            /\ resp' = Ok("signup", id, 201)

\* POST /api/auth/login; a success answers with the access token
login(email, password) ==
    /\ UNCHANGED <<sess, db>>
    /\ LET user == UserByEmail(email) IN
       IF user = 0 \/ ~verify_password(password, db.users[user].hashed_password)
       THEN resp' = Response("login", user, 401, <<"Invalid email or password">>)
       ELSE IF ~db.users[user].is_active
       THEN resp' = Response("login", user, 403, <<"Your account is pending admin approval.">>)
       ELSE resp' = Response("login", user, 200,
                             create_access_token(user, db.users[user].role))

\* POST /api/auth/users; role is the role of the body
create_user(current_user, email, password, role) ==
    /\ UNCHANGED sess
    /\ IF ~allow_admin(db.users[current_user].role)
       THEN resp' = Forbidden("create_user", 0) /\ UNCHANGED db
       ELSE IF UserByEmail(email) # 0
       THEN resp' = Response("create_user", 0, 400, <<"Email already registered">>) /\ UNCHANGED db
       ELSE LET id == db.user_seq + 1 IN
            /\ db' = [db EXCEPT !.users = @ @@ (id :> NewUser(email, password, role, TRUE)),
                                !.user_seq = id]
            /\ resp' = Ok("create_user", id, 201)

\* GET /api/auth/users
list_users(current_user) ==
    /\ UNCHANGED <<sess, db>>
    /\ IF ~allow_admin(db.users[current_user].role)
       THEN resp' = Forbidden("list_users", 0)
       ELSE resp' = Ok("list_users", 0, 200)

\* update_user_role without its test of user_id against the caller's id
update_user_role_NoSelfTest(current_user, user_id, role) ==
    /\ UNCHANGED sess
    /\ IF ~allow_admin(db.users[current_user].role)
       THEN resp' = Forbidden("update_user_role", user_id) /\ UNCHANGED db
       ELSE IF role \notin {"ADMIN", "CLERK", "VIEWER"}
       THEN /\ resp' = Response("update_user_role", user_id, 400,
                                <<"Invalid role. Must be ADMIN, CLERK, or VIEWER">>)
            /\ UNCHANGED db
       ELSE IF user_id \notin DOMAIN db.users
       THEN resp' = Response("update_user_role", user_id, 404, <<"User not found">>) /\ UNCHANGED db
       ELSE /\ db' = [db EXCEPT !.users[user_id].role = role]
            /\ resp' = Ok("update_user_role", user_id, 200)

\* PUT /api/auth/users/{user_id}/role
update_user_role(current_user, user_id, role) ==
    /\ UNCHANGED sess
    /\ IF ~allow_admin(db.users[current_user].role)
       THEN resp' = Forbidden("update_user_role", user_id) /\ UNCHANGED db
       ELSE IF role \notin {"ADMIN", "CLERK", "VIEWER"}
       THEN /\ resp' = Response("update_user_role", user_id, 400,
                                <<"Invalid role. Must be ADMIN, CLERK, or VIEWER">>)
            /\ UNCHANGED db
       ELSE IF user_id = current_user
       THEN /\ resp' = Response("update_user_role", user_id, 400, <<"Cannot change your own role">>)
            /\ UNCHANGED db
       ELSE IF user_id \notin DOMAIN db.users
       THEN resp' = Response("update_user_role", user_id, 404, <<"User not found">>) /\ UNCHANGED db
       ELSE /\ db' = [db EXCEPT !.users[user_id].role = role]
            /\ resp' = Ok("update_user_role", user_id, 200)

\* toggle_user_active without its test of user_id against the caller's id
toggle_user_active_NoSelfTest(current_user, user_id) ==
    /\ UNCHANGED sess
    /\ IF ~allow_admin(db.users[current_user].role)
       THEN resp' = Forbidden("toggle_user_active", user_id) /\ UNCHANGED db
       ELSE IF user_id \notin DOMAIN db.users
       THEN /\ resp' = Response("toggle_user_active", user_id, 404, <<"User not found">>)
            /\ UNCHANGED db
       ELSE /\ db' = [db EXCEPT !.users[user_id].is_active = ~@]
            /\ resp' = Ok("toggle_user_active", user_id, 200)

\* PUT /api/auth/users/{user_id}/toggle-active
toggle_user_active(current_user, user_id) ==
    /\ UNCHANGED sess
    /\ IF ~allow_admin(db.users[current_user].role)
       THEN resp' = Forbidden("toggle_user_active", user_id) /\ UNCHANGED db
       ELSE IF user_id = current_user
       THEN /\ resp' = Response("toggle_user_active", user_id, 400, <<"Cannot deactivate yourself">>)
            /\ UNCHANGED db
       ELSE IF user_id \notin DOMAIN db.users
       THEN /\ resp' = Response("toggle_user_active", user_id, 404, <<"User not found">>)
            /\ UNCHANGED db
       ELSE /\ db' = [db EXCEPT !.users[user_id].is_active = ~@]
            /\ resp' = Ok("toggle_user_active", user_id, 200)

---------------------------------------------------------------------------
(* generate_check, one action per database round trip, run by session p.   *)
(* A statement reads what is committed when it runs (READ COMMITTED); the  *)
(* rows a session has flushed stay private to it until get_db commits.     *)

\* another session holds an uncommitted check row with this check_number:
\* the unique index makes the INSERT wait for that session to end
InsertWaits(p, check_number) ==
    \E q \in Sessions \ {p} :
        /\ sess[q].pc \in {"flush_update", "commit"}
        /\ sess[q].check.check_number = check_number

\* another session holds an uncommitted UPDATE of this invoice row (p = 0:
\* any session does)
RowLocked(p, invoice_id) ==
    \E q \in Sessions \ {p} : sess[q].pc = "commit" /\ sess[q].invoice_id = invoice_id

\* the dependency, the SELECT of the invoice and the three checks on it
gc_select_invoice(p, role, invoice_id, memo) ==
    /\ sess[p].pc = "idle"
    /\ UNCHANGED db
    /\ IF ~allow_admin(role)
       THEN resp' = Forbidden("generate_check", invoice_id) /\ UNCHANGED sess
       ELSE IF invoice_id \notin DOMAIN db.invoices
       THEN /\ resp' = Response("generate_check", invoice_id, 404, <<"Invoice not found">>)
            /\ UNCHANGED sess
       ELSE IF db.invoices[invoice_id].status # "APPROVED"
       THEN /\ resp' = Response("generate_check", invoice_id, 400,
                                <<"Invoice must be APPROVED, current: ",
                                  db.invoices[invoice_id].status>>)
            /\ UNCHANGED sess
       ELSE IF db.invoices[invoice_id].check_id # NoCheck
       THEN /\ resp' = Response("generate_check", invoice_id, 400,
                                <<"Invoice already has a check assigned">>)
            /\ UNCHANGED sess
       ELSE /\ sess' = [sess EXCEPT ![p] = [pc |-> "select_max",
                                            invoice_id |-> invoice_id,
                                            invoice |-> db.invoices[invoice_id],
                                            memo |-> memo]]
            /\ UNCHANGED resp

\* select(func.max(Check.id)) and the check_number minted from it
gc_select_max(p) ==
    /\ sess[p].pc = "select_max"
    /\ sess' = [sess EXCEPT ![p] =
                  [pc |-> "flush_insert",
                   invoice_id |-> sess[p].invoice_id,
                   invoice |-> sess[p].invoice,
                   check |-> NewCheck(sess[p].invoice,
                                      CheckNumber(MaxCheckId(db.checks)),
                                      sess[p].memo)]]
    /\ UNCHANGED <<db, resp>>

\* the INSERT against a check_number column without its unique index
gc_flush_insert_NoUniqueIndex(p) ==
    /\ sess[p].pc = "flush_insert"
    /\ LET id == db.check_seq + 1 IN
       /\ db' = [db EXCEPT !.check_seq = id]
       /\ sess' = [sess EXCEPT ![p] = [pc |-> "flush_update",
                                       invoice_id |-> sess[p].invoice_id,
                                       invoice |-> sess[p].invoice,
                                       check |-> sess[p].check,
                                       check_id |-> id]]
       /\ UNCHANGED resp

\* db.add(check); await db.flush(): the INSERT takes the next id of the
\* sequence, then the unique index on check_number accepts or rejects it;
\* a rejection raises out of the handler and get_db rolls back
gc_flush_insert(p) ==
    /\ sess[p].pc = "flush_insert"
    /\ ~InsertWaits(p, sess[p].check.check_number)
    /\ LET id == db.check_seq + 1 IN
       /\ db' = [db EXCEPT !.check_seq = id]
       /\ IF \E c \in DOMAIN db.checks :
                db.checks[c].check_number = sess[p].check.check_number
          THEN /\ sess' = [sess EXCEPT ![p] = IdleSession]
               /\ resp' = ServerError("generate_check", sess[p].invoice_id, "IntegrityError")
          ELSE /\ sess' = [sess EXCEPT ![p] = [pc |-> "flush_update",
                                               invoice_id |-> sess[p].invoice_id,
                                               invoice |-> sess[p].invoice,
                                               check |-> sess[p].check,
                                               check_id |-> id]]
               /\ UNCHANGED resp

\* invoice.check_id = check.id; invoice.status = "CHECK_GENERATED"; flush
gc_flush_update(p) ==
    /\ sess[p].pc = "flush_update"
    /\ ~RowLocked(p, sess[p].invoice_id)
    /\ sess' = [sess EXCEPT ![p].pc = "commit"]
    /\ UNCHANGED <<db, resp>>

\* the handler returns and get_db commits the INSERT and the UPDATE
gc_commit(p) ==
    /\ sess[p].pc = "commit"
    /\ db' = [db EXCEPT
                !.checks = @ @@ (sess[p].check_id :> sess[p].check),
                !.invoices[sess[p].invoice_id].check_id = sess[p].check_id,
                !.invoices[sess[p].invoice_id].status = "CHECK_GENERATED"]
    /\ sess' = [sess EXCEPT ![p] = IdleSession]
    /\ resp' = Ok("generate_check", sess[p].invoice_id, 201)

---------------------------------------------------------------------------
(* Specifications *)

Next ==
    \/ \E role \in Roles, name \in VendorNames : create_vendor(role, name)
    \/ \E role \in Roles, f \in CreateForms :
          create_invoice_manual(role, f.invoice_number, f.vendor_id, f.amount,
                                f.invoice_date, f.notes)
    \/ \E role \in Roles, i \in InvoiceIds : approve_invoice(role, i)
    \/ \E role \in Roles, i \in InvoiceIds, t \in UpdateNotesInputs, s \in UpdateStatusInputs :
          update_invoice(role, i, t, s)
    \/ \E role \in Roles, u \in Uploads :
          import_file(role, u.extension, u.has_required_columns, u.rows)
    \/ \E role \in Roles, i \in InvoiceIds, m \in MemoInputs : generate_check(role, i, m)

\* requests one at a time
Spec == Init /\ [][Next]_vars

ForwardNext ==
    \/ \E role \in Roles, name \in VendorNames : create_vendor(role, name)
    \/ \E role \in Roles, f \in CreateForms :
          create_invoice_manual(role, f.invoice_number, f.vendor_id, f.amount,
                                f.invoice_date, f.notes)
    \/ \E role \in Roles, i \in InvoiceIds : approve_invoice(role, i)
    \/ \E role \in Roles, u \in Uploads :
          import_file(role, u.extension, u.has_required_columns, u.rows)
    \/ \E role \in Roles, i \in InvoiceIds, m \in MemoInputs : generate_check(role, i, m)

\* requests one at a time, no update_invoice
ForwardSpec == Init /\ [][ForwardNext]_vars

ConcNext ==
    \/ create_vendor("ADMIN", "Acme")
    \/ \E n \in InvoiceNumbers :
          create_invoice_manual("CLERK", n, 1, "12.50", "2024-01-15", "")
    \/ \E i \in InvoiceIds : ~RowLocked(0, i) /\ approve_invoice("ADMIN", i)
    \/ \E p \in Sessions, i \in InvoiceIds : gc_select_invoice(p, "ADMIN", i, NULL)
    \/ \E p \in Sessions : gc_select_max(p)
    \/ \E p \in Sessions : gc_flush_insert(p)
    \/ \E p \in Sessions : gc_flush_update(p)
    \/ \E p \in Sessions : gc_commit(p)

\* generate_check requests interleaved at their database round trips; the
\* requests that set the invoices up (create_vendor, create_invoice_manual,
\* approve_invoice) take effect in one step, between those round trips
ConcSpec == Init /\ [][ConcNext]_vars

UserNext ==
    \/ \E e \in Emails, w \in {"secret1", "short"}, n \in FullNames : signup(e, w, n)
    \/ \E e \in Emails, w \in Passwords : login(e, w)
    \/ \E u \in DOMAIN db.users, e \in Emails, r \in RoleInputs :
          create_user(u, e, "created1", r)
    \/ \E u \in DOMAIN db.users : list_users(u)
    \/ \E u \in DOMAIN db.users, t \in UserIds, r \in RoleInputs :
          update_user_role(u, t, r)
    \/ \E u \in DOMAIN db.users, t \in UserIds : toggle_user_active(u, t)

\* the requests of the auth router, one at a time
UserSpec == Init /\ [][UserNext]_vars

AccessNext ==
    \/ \E role \in Roles, name \in VendorNames :
          db.vendor_seq < MaxVendorSeq /\ create_vendor(role, name)
    \/ \E role \in Roles, v \in VendorIds, name \in UpdateNameInputs :
          update_vendor(role, v, name)
    \/ \E role \in Roles, v \in VendorIds : delete_vendor(role, v)
    \/ \E role \in Roles, v \in VendorIds :
          create_invoice_manual(role, "INV-1", v, "12.50", "2024-01-15", "")
    \/ \E role \in Roles : update_invoice(role, 1, "rush", UNSET)
    \/ \E role \in Roles, u \in Uploads :
          import_file(role, u.extension, u.has_required_columns, u.rows)
    \/ \E role \in Roles : approve_invoice(role, 1)
    \/ \E role \in Roles : generate_check(role, 1, NULL)
    \/ \E u \in DOMAIN db.users : create_user(u, "new@checkprint.local", "created1", "VIEWER")
    \/ \E u \in DOMAIN db.users : list_users(u)
    \/ \E u \in DOMAIN db.users : update_user_role(u, 2, "ADMIN")
    \/ \E u \in DOMAIN db.users : toggle_user_active(u, 3)

\* every handler that writes, called under each role, one request at a time
AccessSpec == Init /\ [][AccessNext]_vars

LedgerNext ==
    \/ \E role \in Roles, name \in VendorNames : create_vendor(role, name)
    \/ \E role \in Roles, f \in LedgerForms :
          create_invoice_manual(role, f.invoice_number, f.vendor_id, f.amount,
                                f.invoice_date, f.notes)
    \/ \E role \in Roles, u \in Uploads :
          import_file(role, u.extension, u.has_required_columns, u.rows)

\* requests one at a time, only the ones that add to the ledger
LedgerSpec == Init /\ [][LedgerNext]_vars

RowsNext ==
    \E rows \in RowLists, source \in Sources : import_rows(rows, source, 1)

\* _import_rows applied to row sequences, one call after the other
RowsSpec == Init /\ [][RowsNext]_vars

\* the users of store d that are active and hold the role ADMIN
ActiveAdmins(d) ==
    { u \in DOMAIN d.users : d.users[u].role = "ADMIN" /\ d.users[u].is_active }

AdminNext ==
    \/ \E e \in Emails, w \in {"secret1", "short"}, n \in FullNames : signup(e, w, n)
    \/ \E u \in ActiveAdmins(db), e \in Emails, r \in RoleInputs :
          create_user(u, e, "created1", r)
    \/ \E u \in ActiveAdmins(db), t \in UserIds, r \in RoleInputs :
          update_user_role(u, t, r)
    \/ \E u \in ActiveAdmins(db), t \in UserIds : toggle_user_active(u, t)

\* the user operations one at a time, the management operations called by
\* users who are active and ADMIN when they call
AdminSpec == Init /\ [][AdminNext]_vars

---------------------------------------------------------------------------
(* Properties *)

LaterStatuses == {"CHECK_GENERATED", "PRINTED", "VOID"}

\* the step is the completion of request op on invoice i by a caller that
\* passed the role dependency and named an existing invoice
Completes(op, i) ==
    /\ resp'.op = op
    /\ resp'.id = i
    /\ resp'.code \notin {403, 404}

\* C1: an Approve by an admin on an existing invoice succeeds exactly when the
\* invoice is PENDING, and then sets its status to APPROVED and changes nothing
\* else in the store; in every other status it answers 400 "Cannot approve
\* invoice with status <current status>" and changes nothing; an Approve of
\* the same invoice right after a successful one therefore fails.
C1_ApproveOnlyFromPending ==
    [][\A i \in InvoiceIds :
        Completes("approve", i) =>
          /\ i \in DOMAIN db.invoices
          /\ IF db.invoices[i].status = "PENDING"
             THEN /\ resp'.code = 200
                  /\ db' = [db EXCEPT !.invoices[i].status = "APPROVED"]
             ELSE /\ resp'.code = 400
                  /\ resp'.detail = <<"Cannot approve invoice with status ",
                                      db.invoices[i].status>>
                  /\ db' = db
          /\ (resp.op = "approve" /\ resp.id = i /\ resp.code = 200) =>
                (resp'.code = 400 /\ db' = db)
      ]_vars

\* C1 witness: an Approve has just failed on an invoice that an earlier
\* Approve moved to APPROVED
C1_Witness ==
    /\ resp.op = "approve"
    /\ resp.code = 400
    /\ resp.id \in DOMAIN db.invoices
    /\ db.invoices[resp.id].status = "APPROVED"
    /\ resp.detail = <<"Cannot approve invoice with status ", "APPROVED">>

\* the checks that a step adds to the store
CreatedChecks == DOMAIN db'.checks \ DOMAIN db.checks

\* C2: a GenerateCheck by an admin on an existing invoice succeeds exactly
\* when the invoice is APPROVED and has no check_id; it then creates exactly
\* one Check, points invoice.check_id at it and sets the status to
\* CHECK_GENERATED, leaving every other row as it was. Otherwise it answers
\* 400, "must be APPROVED" when the status is not APPROVED and "already has a
\* check" when it is APPROVED with a check_id, creates no Check and leaves the
\* invoice unchanged.
C2_GenerateCheckContract ==
    [][\A i \in InvoiceIds :
        Completes("generate_check", i) =>
          /\ i \in DOMAIN db.invoices
          /\ IF db.invoices[i].status = "APPROVED" /\ db.invoices[i].check_id = NoCheck
             THEN /\ resp'.code = 201
                  /\ Cardinality(CreatedChecks) = 1
                  /\ \A c \in DOMAIN db.checks : db'.checks[c] = db.checks[c]
                  /\ \E c \in CreatedChecks :
                        db'.invoices = [db.invoices EXCEPT
                                          ![i].check_id = c,
                                          ![i].status = "CHECK_GENERATED"]
             ELSE /\ resp'.code = 400
                  /\ resp'.detail =
                        IF db.invoices[i].status # "APPROVED"
                        THEN <<"Invoice must be APPROVED, current: ", db.invoices[i].status>>
                        ELSE <<"Invoice already has a check assigned">>
                  /\ db'.checks = db.checks
                  /\ db'.invoices = db.invoices
      ]_vars

\* C2 witness: a GenerateCheck was refused because the APPROVED invoice
\* already carries a check_id
C2_Witness ==
    /\ resp.op = "generate_check"
    /\ resp.code = 400
    /\ resp.detail = <<"Invoice already has a check assigned">>
    /\ db.invoices[resp.id].status = "APPROVED"
    /\ db.invoices[resp.id].check_id \in DOMAIN db.checks

\* C3: every invoice whose check_id is set has status CHECK_GENERATED,
\* PRINTED or VOID (stated as claimed; update_invoice breaks it)
C3_CheckIdImpliesLaterStatus ==
    \A i \in DOMAIN db.invoices :
        db.invoices[i].check_id # NoCheck => db.invoices[i].status \in LaterStatuses

\* C3 failing state: an invoice with a check whose status was patched back
C3_Reached ==
    \E i \in DOMAIN db.invoices :
        db.invoices[i].check_id # NoCheck /\ db.invoices[i].status = "PENDING"

\* the invoices that a step adds to the store
CreatedInvoices == DOMAIN db'.invoices \ DOMAIN db.invoices

\* C4: every step that changes an invoice's status to CHECK_GENERATED is a
\* successful GenerateCheck on it that creates a Check and sets check_id;
\* every invoice is created PENDING; an invoice leaves PENDING for APPROVED
\* only by a successful Approve on it (stated as claimed; update_invoice
\* breaks it)
C4_TransitionsOnlyByWorkflow ==
    [][/\ \A i \in CreatedInvoices : db'.invoices[i].status = "PENDING"
       /\ \A i \in DOMAIN db.invoices :
            /\ (db.invoices[i].status # "CHECK_GENERATED"
                  /\ db'.invoices[i].status = "CHECK_GENERATED") =>
                 /\ resp' = Ok("generate_check", i, 201)
                 /\ db'.invoices[i].check_id \in CreatedChecks
            /\ (db.invoices[i].status = "PENDING"
                  /\ db'.invoices[i].status = "APPROVED") =>
                 resp' = Ok("approve", i, 200)
      ]_vars

\* C5: without update_invoice, an invoice's check_id is set if and only if
\* its status is CHECK_GENERATED, PRINTED or VOID
C5_CheckIdIffLaterStatus ==
    \A i \in DOMAIN db.invoices :
        db.invoices[i].check_id # NoCheck <=> db.invoices[i].status \in LaterStatuses

\* C5 witness: one invoice with its check issued beside one still without
C5_Witness ==
    \E i, j \in DOMAIN db.invoices :
        /\ db.invoices[i].check_id \in DOMAIN db.checks
        /\ db.invoices[i].status = "CHECK_GENERATED"
        /\ db.invoices[j].check_id = NoCheck
        /\ db.invoices[j].status = "APPROVED"

\* C6: with requests one at a time, a check_id that is set is never cleared
\* or changed by any step, and every GenerateCheck on an invoice whose
\* check_id is set fails and creates no Check, also after an Update has put
\* the status back to APPROVED; so GenerateCheck succeeds at most once per
\* invoice
C6_GenerateCheckAtMostOnce ==
    [][\A i \in DOMAIN db.invoices :
        db.invoices[i].check_id # NoCheck =>
          /\ db'.invoices[i].check_id = db.invoices[i].check_id
          /\ (resp'.op = "generate_check" /\ resp'.id = i) =>
                /\ resp'.code \in {400, 403}
                /\ db'.checks = db.checks
      ]_vars

\* C6 witness: an Update has put an invoice with a check back to APPROVED
C6_Witness ==
    /\ resp = Ok("update", resp.id, 200)
    /\ resp.id \in DOMAIN db.invoices
    /\ db.invoices[resp.id].status = "APPROVED"
    /\ db.invoices[resp.id].check_id \in DOMAIN db.checks

\* the invoices that refer to check c
InvoicesOf(c) == {i \in DOMAIN db.invoices : db.invoices[i].check_id = c}

\* C7: under any interleaving every committed Check is referenced by exactly
\* one invoice (stated as claimed; two GenerateCheck requests for the same
\* invoice break it)
C7_ChecksOneToOne ==
    \A c \in DOMAIN db.checks : Cardinality(InvoicesOf(c)) = 1

RECURSIVE ValueOf(_)
\* the number that a sequence of decimal digits writes
ValueOf(ds) == IF ds = <<>> THEN 0 ELSE 10 * ValueOf(SubSeq(ds, 1, Len(ds) - 1)) + ds[Len(ds)]

\* the number written by the check_number of committed check c
NumberOf(checks, c) == ValueOf(checks[c].check_number.digits)

\* C8: with requests one at a time, a created check's number is "CHK-" and
\* six decimal digits that write (maximum existing Check id) + 1; it is
\* CHK-000001 when no check exists, and it is greater than the number of
\* every check issued before, so no two checks share a number
C8_CheckNumbersIncrease ==
    [][\A c \in CreatedChecks :
        LET number == db'.checks[c].check_number IN
        /\ number.prefix = "CHK-"
        /\ Len(number.digits) = 6
        /\ \A k \in 1..6 : number.digits[k] \in 0..9
        /\ ValueOf(number.digits) = Max(DOMAIN db.checks) + 1
        /\ DOMAIN db.checks = {} => number.digits = <<0, 0, 0, 0, 0, 1>>
        /\ \A d \in DOMAIN db.checks :
              /\ NumberOf(db.checks, d) < ValueOf(number.digits)
              /\ db.checks[d].check_number # number
      ]_vars

\* C8 witness: a second check has been issued after CHK-000001
C8_Witness ==
    /\ 1 \in DOMAIN db.checks
    /\ 2 \in DOMAIN db.checks
    /\ db.checks[1].check_number.digits = <<0, 0, 0, 0, 0, 1>>
    /\ db.checks[2].check_number.digits = <<0, 0, 0, 0, 0, 2>>

\* session p's INSERT is rejected in this step: the request ends
Rejected(p) == sess[p].pc = "flush_insert" /\ sess'[p].pc = "idle"

\* C9: under concurrent GenerateCheck requests no two committed checks ever
\* share a check_number; a request whose INSERT the unique index rejects
\* ends with a server error, is not retried (its session ends) and changes
\* no invoice and no check, so its invoice, if no other request has changed
\* it since the request read it, is still APPROVED with check_id unset
C9_UniqueIndexGuardsNumbers ==
    [][/\ \A c, d \in DOMAIN db'.checks :
            c # d => db'.checks[c].check_number # db'.checks[d].check_number
       /\ \A p \in Sessions :
            Rejected(p) =>
              /\ resp' = ServerError("generate_check", sess[p].invoice_id, "IntegrityError")
              /\ sess'[p] = IdleSession
              /\ db'.checks = db.checks
              /\ db'.invoices = db.invoices
              /\ db.invoices[sess[p].invoice_id] = sess[p].invoice =>
                    /\ db'.invoices[sess[p].invoice_id].status = "APPROVED"
                    /\ db'.invoices[sess[p].invoice_id].check_id = NoCheck
      ]_vars

\* C9 witness: a request for one invoice was rejected after a concurrent
\* request for another invoice committed the number both had minted
C9_Witness ==
    /\ resp.op = "generate_check"
    /\ resp.code = 500
    /\ db.invoices[resp.id].status = "APPROVED"
    /\ db.invoices[resp.id].check_id = NoCheck
    /\ \E j \in DOMAIN db.invoices :
          /\ j # resp.id
          /\ db.invoices[j].check_id \in DOMAIN db.checks
          /\ db.checks[db.invoices[j].check_id].check_number = CheckNumber(0)

\* every referenced check carries the amount and the vendor of its invoice
ChecksMatchInvoices(d) ==
    \A i \in DOMAIN d.invoices :
        d.invoices[i].check_id \in DOMAIN d.checks =>
          /\ d.checks[d.invoices[i].check_id].amount = d.invoices[i].amount
          /\ d.checks[d.invoices[i].check_id].vendor_id = d.invoices[i].vendor_id

\* the check that GenerateCheck creates from invoice i copies the amount and
\* the vendor of the invoice and has status GENERATED
CreatedFrom(i) ==
    \A c \in CreatedChecks :
        /\ db'.checks[c].amount = db.invoices[i].amount
        /\ db'.checks[c].vendor_id = db.invoices[i].vendor_id
        /\ db'.checks[c].status = "GENERATED"

\* C10 as claimed: the created check copies amount and vendor, has status
\* GENERATED and its memo is the supplied memo, or "Payment for invoice
\* <invoice_number>" when none is supplied (the field is missing or null);
\* afterwards every referenced check keeps the amount and vendor of its
\* invoice
C10_AsClaimed ==
    [][/\ \A i \in InvoiceIds, m \in MemoInputs :
            (Completes("generate_check", i) /\ resp'.code = 201
               /\ generate_check("ADMIN", i, m)) =>
              /\ CreatedChecks # {}
              /\ CreatedFrom(i)
              /\ \A c \in CreatedChecks :
                    db'.checks[c].memo =
                       IF m = NULL
                       THEN <<"Payment for invoice ", db.invoices[i].invoice_number>>
                       ELSE <<m>>
       /\ ChecksMatchInvoices(db')
      ]_vars

\* C10 amended: as C10, with the default memo also taken when the supplied
\* memo is the empty string
C10_MemoDefaultsWhenEmpty ==
    [][/\ \A i \in InvoiceIds, m \in MemoInputs :
            (Completes("generate_check", i) /\ resp'.code = 201
               /\ generate_check("ADMIN", i, m)) =>
              /\ CreatedChecks # {}
              /\ CreatedFrom(i)
              /\ \A c \in CreatedChecks :
                    db'.checks[c].memo =
                       IF m = NULL \/ m = ""
                       THEN <<"Payment for invoice ", db.invoices[i].invoice_number>>
                       ELSE <<m>>
       /\ ChecksMatchInvoices(db')
      ]_vars

\* C10 witness: an Update has just patched an invoice whose check carries a
\* supplied memo, beside a check that carries the default memo
C10_Witness ==
    /\ resp = Ok("update", resp.id, 200)
    /\ resp.id \in DOMAIN db.invoices
    /\ db.invoices[resp.id].check_id \in DOMAIN db.checks
    /\ db.invoices[resp.id].status = "VOID"
    /\ db.checks[db.invoices[resp.id].check_id].memo = <<"Rent">>
    /\ \E c \in DOMAIN db.checks :
          db.checks[c].memo = <<"Payment for invoice ", "INV-1">>

---------------------------------------------------------------------------
(* Bulk import *)

\* the uploads that pass the extension test and the header test
WellFormedUploads ==
    {u \in Uploads : u.has_required_columns /\ u.extension \in {".csv", ".xlsx"}}

\* the step is a bulk import of upload u by a clerk or an admin
Imports(u) ==
    \E role \in {"ADMIN", "CLERK"} :
        import_file(role, u.extension, u.has_required_columns, u.rows)

\* the invoice_number of a row, trimmed
NumberIn(row) == Strip(Str(row.invoice_number))

\* a required field of the row is empty after trimming
MissesField(row) ==
    \/ NumberIn(row) = ""
    \/ Strip(StrOrEmpty(row.store_number)) = ""
    \/ Strip(Str(row.vendor_name)) = ""
    \/ Strip(Str(row.amount)) = ""

\* the amount of the row does not parse
BadAmount(row) == Decimal(Strip(Str(row.amount))) < 0

\* the row carries an invoice_date that does not parse
BadDate(row) ==
    /\ Strip(StrOrEmpty(row.invoice_date)) # ""
    /\ ~ParsesAsDate(Strip(StrOrEmpty(row.invoice_date)))

PassesValidation(row) == ~MissesField(row) /\ ~BadAmount(row) /\ ~BadDate(row)

\* the data rows (1-based) that fail validation
Failing(rows) == {k \in 1..Len(rows) : ~PassesValidation(rows[k])}

\* the data rows that pass validation and whose invoice_number is in the
\* ledger already or in an earlier row of the file that passes validation
Duplicates(rows) ==
    {k \in 1..Len(rows) :
        /\ PassesValidation(rows[k])
        /\ \/ \E n \in DOMAIN db.invoices :
                 db.invoices[n].invoice_number = NumberIn(rows[k])
           \/ \E j \in 1..(k - 1) :
                 PassesValidation(rows[j]) /\ NumberIn(rows[j]) = NumberIn(rows[k])}

\* the entries of the summary's errors that are labelled "Row n"
Labelled(summary, n) ==
    {e \in 1..Len(summary.errors) :
        summary.errors[e][1] = "Row " /\ summary.errors[e][2] = n}

\* the invoices of the store that carry invoice_number
Carrying(invoices, invoice_number) ==
    {n \in DOMAIN invoices : invoices[n].invoice_number = invoice_number}

\* C11: in a bulk import, a row that passes validation and whose
\* invoice_number exists already (in the ledger, or in an earlier row of the
\* file) is counted in skipped_duplicates and not in imported, gets no error
\* entry and creates no invoice, and every existing invoice stays as it was
C11_DuplicateRowSkipped ==
    [][\A u \in WellFormedUploads :
        (Duplicates(u.rows) # {} /\ Imports(u)) =>
          /\ resp'.code = 200
          /\ resp'.detail.skipped_duplicates = Cardinality(Duplicates(u.rows))
          /\ resp'.detail.imported = Cardinality(CreatedInvoices)
          /\ \A k \in Duplicates(u.rows) :
                /\ Labelled(resp'.detail, k + 1) = {}
                /\ Cardinality(Carrying(db'.invoices, NumberIn(u.rows[k]))) = 1
          /\ \A n \in DOMAIN db.invoices : db'.invoices[n] = db.invoices[n]
      ]_vars

\* the error entry that the claim gives the k-th data row
ErrorOf(row, k) ==
    IF MissesField(row) THEN <<"Row ", k + 1, ": missing required field(s)">>
    ELSE IF BadAmount(row)
    THEN <<"Row ", k + 1, ": invalid amount '", Strip(Str(row.amount)), "'">>
    ELSE <<"Row ", k + 1, ": invalid date '", Strip(StrOrEmpty(row.invoice_date)), "'">>

\* the three-row file whose second row has the amount 'abc'
ThreeRows ==
    CHOOSE rows \in RowSequences : Len(rows) = 3 /\ rows[2].amount = "abc"

\* C12: in a bulk import, the k-th data row that fails validation is counted
\* neither in imported nor in skipped_duplicates, creates no invoice and gets
\* exactly one error entry, labelled "Row k+1"; the rows after it are still
\* processed (total_rows is the number of data rows, and the rows that pass
\* are imported or skipped); the three-row file with amount 'abc' in row 2,
\* imported into an empty ledger, yields total_rows = 3, imported = 2,
\* skipped_duplicates = 0, errors = ["Row 3: invalid amount 'abc'"]
C12_InvalidRowReported ==
    [][\A u \in WellFormedUploads :
        (Failing(u.rows) # {} /\ Imports(u)) =>
          /\ resp'.code = 200
          /\ resp'.detail.total_rows = Len(u.rows)
          /\ resp'.detail.imported + resp'.detail.skipped_duplicates
                = Len(u.rows) - Cardinality(Failing(u.rows))
          /\ resp'.detail.imported = Cardinality(CreatedInvoices)
          /\ Len(resp'.detail.errors) = Cardinality(Failing(u.rows))
          /\ \A k \in Failing(u.rows) :
                \E e \in 1..Len(resp'.detail.errors) :
                    /\ Labelled(resp'.detail, k + 1) = {e}
                    /\ resp'.detail.errors[e] = ErrorOf(u.rows[k], k)
          /\ (u.rows = ThreeRows /\ DOMAIN db.invoices = {}) =>
                resp'.detail = [total_rows |-> 3, imported |-> 2,
                                skipped_duplicates |-> 0,
                                errors |-> << <<"Row ", 3, ": invalid amount '", "abc", "'">> >>]
      ]_vars

\* C13: a bulk import of a CSV or XLSX file that has the required columns
\* always completes with an ImportSummary, whatever its rows contain; the
\* invoices it counts as imported are in the store afterwards, with status
\* PENDING, also when other rows of the file failed
C13_ImportAlwaysCompletes ==
    [][\A u \in WellFormedUploads :
        Imports(u) =>
          /\ resp'.code = 200
          /\ DOMAIN resp'.detail = {"total_rows", "imported", "skipped_duplicates", "errors"}
          /\ resp'.detail.imported = Cardinality(CreatedInvoices)
          /\ resp'.detail.imported
                = Len(u.rows) - Cardinality(Failing(u.rows)) - Cardinality(Duplicates(u.rows))
          /\ \A n \in CreatedInvoices : db'.invoices[n].status = "PENDING"
      ]_vars

\* the data rows that the import inserts: they pass validation and are no
\* duplicates
Imported(rows) == (1..Len(rows)) \ (Failing(rows) \cup Duplicates(rows))

\* the vendors that a step adds to the store
CreatedVendors == DOMAIN db'.vendors \ DOMAIN db.vendors

\* the vendor_name of a row, trimmed
VendorIn(row) == Strip(Str(row.vendor_name))

\* C20: in a bulk import each row is validated before its invoice_number is
\* looked up: a row that fails validation is reported as an error and is
\* not counted in skipped_duplicates, also when its invoice_number exists;
\* the vendor is looked up by its exact name and created only for a row
\* that is then imported: every created vendor carries the vendor_name of
\* an imported row, each imported invoice refers to the vendor of exactly
\* that name, and afterwards no two vendors share a name
C20_ValidateThenLookUp ==
    [][\A u \in WellFormedUploads :
        Imports(u) =>
          /\ resp'.code = 200
          /\ resp'.detail.skipped_duplicates = Cardinality(Duplicates(u.rows))
          /\ \A k \in Failing(u.rows) : Labelled(resp'.detail, k + 1) # {}
          /\ \A v \in CreatedVendors :
                \E k \in Imported(u.rows) : db'.vendors[v].name = VendorIn(u.rows[k])
          /\ \A k \in Imported(u.rows) :
                \E n \in CreatedInvoices :
                    /\ db'.invoices[n].invoice_number = NumberIn(u.rows[k])
                    /\ db'.vendors[db'.invoices[n].vendor_id].name = VendorIn(u.rows[k])
          /\ \A v, w \in DOMAIN db'.vendors :
                v # w => db'.vendors[v].name # db'.vendors[w].name
      ]_vars

\* C14: after any sequence of bulk imports and manual creates no two
\* invoices share an invoice_number (whatever their vendors), and a manual
\* create with an invoice_number that exists fails and creates nothing
C14_InvoiceNumbersUnique ==
    [][/\ \A m, n \in DOMAIN db'.invoices :
            m # n => db'.invoices[m].invoice_number # db'.invoices[n].invoice_number
       /\ \A role \in Roles, f \in LedgerForms :
            (/\ Carrying(db.invoices, f.invoice_number) # {}
             /\ create_invoice_manual(role, f.invoice_number, f.vendor_id, f.amount,
                                      f.invoice_date, f.notes)) =>
               /\ resp'.code \in {400, 403}
               /\ db' = db
      ]_vars

\* C14 witness: a manual create of INV-1 under the second vendor was refused
\* because INV-1 exists under the first, beside INV-2
C14_Witness ==
    /\ resp = Response("create", 0, 400, <<"Invoice ", "INV-1", " already exists">>)
    /\ \E m, n \in DOMAIN db.invoices :
          /\ db.invoices[m].invoice_number = "INV-1"
          /\ db.invoices[m].vendor_id = 1
          /\ db.invoices[n].invoice_number = "INV-2"
    /\ 2 \in DOMAIN db.vendors

---------------------------------------------------------------------------
(* Users *)

\* C17: no user changes their own role or deactivates their own account:
\* update_user_role with user_id equal to the caller's id fails for every
\* role value, valid or not, toggle_user_active with user_id equal to the
\* caller's id fails, and no update_user_role or toggle_user_active request,
\* whatever its target, changes the caller's own role or is_active
C17_NoSelfRoleOrActiveChange ==
    [][resp'.op \in {"update_user_role", "toggle_user_active"} =>
        \A u \in DOMAIN db.users :
          /\ (resp'.op = "update_user_role" /\ resp'.id = u) =>
                \A r \in RoleInputs :
                    update_user_role(u, u, r) => (resp'.code \in {400, 403} /\ db' = db)
          /\ (resp'.op = "toggle_user_active" /\ resp'.id = u) =>
                (toggle_user_active(u, u) => (resp'.code \in {400, 403} /\ db' = db))
          /\ (\/ \E r \in RoleInputs : update_user_role(u, resp'.id, r)
              \/ toggle_user_active(u, resp'.id)) =>
                /\ db'.users[u].role = db.users[u].role
                /\ db'.users[u].is_active = db.users[u].is_active
      ]_vars

\* C17 witness: a user who was made ADMIN by another admin has just been
\* refused the change of their own role
C17_Witness ==
    /\ resp.op = "update_user_role"
    /\ resp.code = 400
    /\ resp.detail = <<"Cannot change your own role">>
    /\ resp.id = 2
    /\ db.users[2].role = "ADMIN"

\* the users that a step adds to the store
CreatedUsers == DOMAIN db'.users \ DOMAIN db.users

\* the step is a successful login of user t
LogsIn(t) == resp'.op = "login" /\ resp'.id = t /\ resp'.code = 200

\* C18: signup creates the user inactive and with role VIEWER; is_active of
\* a user changes only in a successful toggle_user_active on that user by
\* another user who is an admin; a login succeeds only for an active user,
\* and the login of an inactive user with the right password answers 403
\* and issues no token (so a self-registered user logs in only after an
\* admin's toggle); create_user creates the user active, and an active user
\* logs in with the right password and gets the token of their id and role
C18_SignupInactiveUntilToggled ==
    [][/\ \A t \in CreatedUsers :
            /\ resp'.op = "signup" =>
                  (~db'.users[t].is_active /\ db'.users[t].role = "VIEWER")
            /\ resp'.op = "create_user" => db'.users[t].is_active
            /\ resp'.op \in {"signup", "create_user"}
       /\ \A t \in DOMAIN db.users :
            /\ db'.users[t].is_active # db.users[t].is_active =>
                  /\ resp' = Ok("toggle_user_active", t, 200)
                  /\ \E u \in DOMAIN db.users \ {t} :
                        db.users[u].role = "ADMIN" /\ toggle_user_active(u, t)
            /\ LogsIn(t) => db.users[t].is_active
            /\ \A w \in Passwords :
                  (resp'.op = "login" /\ login(db.users[t].email, w)) =>
                     /\ ~db.users[t].is_active =>
                           /\ resp'.code \in {401, 403}
                           /\ resp'.detail \in {<<"Invalid email or password">>,
                                                <<"Your account is pending admin approval.">>}
                           /\ verify_password(w, db.users[t].hashed_password)
                                 => resp'.code = 403
                     /\ (db.users[t].is_active
                           /\ verify_password(w, db.users[t].hashed_password)) =>
                           /\ resp'.code = 200
                           /\ resp'.detail = create_access_token(t, db.users[t].role)
      ]_vars

\* C18 witness: the user who signed up with "secret1" is a VIEWER, has been
\* activated, and has just logged in
C18_Witness ==
    /\ resp.op = "login"
    /\ resp.code = 200
    /\ resp.id = 4
    /\ db.users[4].hashed_password = hash_password("secret1")
    /\ db.users[4].role = "VIEWER"
    /\ db.users[4].is_active
    /\ resp.detail = create_access_token(4, "VIEWER")

---------------------------------------------------------------------------
(* Roles *)

\* the step is a request of the invoice router that writes, sent under role
InvoiceRequest(role) ==
    \/ /\ resp'.op = "update"
       /\ \E t \in UpdateNotesInputs, st \in UpdateStatusInputs :
             update_invoice(role, resp'.id, t, st)
    \/ /\ resp'.op = "import"
       /\ \E u \in Uploads : import_file(role, u.extension, u.has_required_columns, u.rows)
    \/ /\ resp'.op = "create"
       /\ \E v \in VendorIds :
             create_invoice_manual(role, "INV-1", v, "12.50", "2024-01-15", "")

\* the step is an Approve, a GenerateCheck or a vendor request sent under role
WorkflowRequest(role) ==
    \/ resp'.op = "approve" /\ approve_invoice(role, resp'.id)
    \/ resp'.op = "generate_check" /\ \E m \in MemoInputs : generate_check(role, resp'.id, m)
    \/ resp'.op = "create_vendor" /\ \E name \in VendorNames : create_vendor(role, name)
    \/ /\ resp'.op = "update_vendor"
       /\ \E name \in UpdateNameInputs : update_vendor(role, resp'.id, name)
    \/ resp'.op = "delete_vendor" /\ delete_vendor(role, resp'.id)

\* the step is a user management request sent by user u
UserRequest(u) ==
    \/ /\ resp'.op = "create_user"
       /\ \E e \in Emails, w \in Passwords, r \in RoleInputs : create_user(u, e, w, r)
    \/ resp'.op = "list_users" /\ list_users(u)
    \/ /\ resp'.op = "update_user_role"
       /\ \E r \in RoleInputs \cup Roles : update_user_role(u, resp'.id, r)
    \/ resp'.op = "toggle_user_active" /\ toggle_user_active(u, resp'.id)

\* the users that hold role
Holding(role) == {u \in DOMAIN db.users : db.users[u].role = role}

\* the request is answered 403 and the store is as it was
Refused == resp'.code = 403 /\ db' = db

WorkflowOps == {"approve", "generate_check", "create_vendor", "update_vendor", "delete_vendor"}
UserOps == {"create_user", "list_users", "update_user_role", "toggle_user_active"}

\* C15: every request that a VIEWER sends to a writing operation (invoice
\* Update, bulk import, manual create, Approve, GenerateCheck, vendor and
\* user management) is answered Forbidden and changes nothing (stated as
\* claimed; the invoice operations admit every role)
C15_ViewerIsReadOnly ==
    [][/\ InvoiceRequest("VIEWER") => Refused
       /\ WorkflowRequest("VIEWER") => Refused
       /\ \A u \in Holding("VIEWER") : UserRequest(u) => Refused
      ]_vars

\* C16: Approve, GenerateCheck, vendor create, update and delete and the
\* user management requests (create user, update role, toggle active, list
\* users) sent by a CLERK or a VIEWER are answered 403 and change nothing,
\* and a step in which one of them changes the store is a request of an
\* ADMIN
C16_AdminOnly ==
    [][/\ \A role \in {"CLERK", "VIEWER"} :
             /\ WorkflowRequest(role) => Refused
             /\ \A u \in Holding(role) : UserRequest(u) => Refused
       /\ (resp'.op \in WorkflowOps /\ db' # db) => WorkflowRequest("ADMIN")
       /\ (resp'.op \in UserOps /\ db' # db) => \E u \in Holding("ADMIN") : UserRequest(u)
      ]_vars

\* C16 witness: the seeded clerk, made ADMIN by the seeded admin, has
\* deactivated the viewer, and a delete of an unreferenced vendor was
\* refused after that
C16_Witness ==
    /\ resp = Forbidden("delete_vendor", 1)
    /\ 1 \in DOMAIN db.vendors
    /\ Referring(db, 1).invoices = {}
    /\ db.users[2].role = "ADMIN"
    /\ ~db.users[3].is_active
    /\ \E i \in DOMAIN db.invoices : db.invoices[i].status = "CHECK_GENERATED"

\* C19: after every step each invoice's vendor_id refers to a vendor of
\* the store, and a DeleteVendor on a vendor that an invoice refers to
\* deletes nothing: the vendor, its invoices and the rest of the store are
\* as they were
C19_VendorKeptWhileReferenced ==
    [][/\ \A i \in DOMAIN db'.invoices : db'.invoices[i].vendor_id \in DOMAIN db'.vendors
       /\ \A v \in VendorIds :
             (/\ resp'.op = "delete_vendor"
              /\ Referring(db, v).invoices # {}
              /\ \E role \in Roles : delete_vendor(role, v)) =>
                /\ db' = db
                /\ v \in DOMAIN db'.vendors
      ]_vars

\* C19 witness: an admin's delete of the vendor of an invoice with a check
\* has failed, after the other vendor was deleted
C19_Witness ==
    /\ resp = ServerError("delete_vendor", 2, "IntegrityError")
    /\ DOMAIN db.vendors = {2}
    /\ db.vendor_seq = 2
    /\ \E i \in DOMAIN db.invoices :
          /\ db.invoices[i].vendor_id = 2
          /\ db.invoices[i].check_id \in DOMAIN db.checks
          /\ db.checks[db.invoices[i].check_id].vendor_id = 2

\* C21: for every row sequence and every store that imports lead to, the
\* summary that _import_rows returns accounts for each row once:
\* total_rows is the number of data rows, and it is the sum of imported,
\* skipped_duplicates and the number of error strings
C21_EveryRowAccountedOnce ==
    \A rows \in RowLists, source \in Sources :
        LET summary == _import_rows(rows, source, db, 1).summary
        IN  /\ summary.total_rows = Len(rows)
            /\ summary.total_rows =
                 summary.imported + summary.skipped_duplicates + Len(summary.errors)

\* C21 witness: a call of _import_rows has returned a summary with a
\* skipped duplicate and a row in error, after a call that imported a row
C21_Witness ==
    /\ resp.op = "_import_rows"
    /\ resp.detail.imported = 0
    /\ resp.detail.skipped_duplicates > 0
    /\ resp.detail.errors # <<>>
    /\ db.invoices # <<>>

\* C22: from the seeded users on, while signup, create user, update role
\* and toggle active run one at a time and each management operation is
\* called by a user who is then an active ADMIN, some user is an active
\* ADMIN in every state
C22_ActiveAdminRemains == ActiveAdmins(db) # {}

\* C22 witness: the seeded admin has lost the role ADMIN and has been
\* deactivated, by update role and toggle active of another admin
C22_Witness ==
    /\ db.users[1].role # "ADMIN"
    /\ ~db.users[1].is_active
    /\ resp.op \in {"update_user_role", "toggle_user_active"}
    /\ resp.code = 200

=============================================================================
